---- MODULE Spec2Model ----
(***************************************************************************)
(* Model of src/info.py, the Streamlit "Dataset Analyzer" script.          *)
(*                                                                         *)
(* Streamlit runs the script top to bottom once per user interaction.  A   *)
(* run is modelled by the program counter pc walking through the blocks    *)
(* of the script: load (24-29), coerce (31-37), classify (39-42), filter   *)
(* (64-73), tabs (75-160), viz (163-289).  Between runs pc = "idle" and    *)
(* the user may upload a file, pick a base column or move the slider.      *)
(*                                                                         *)
(* Numbers: the slider value is kept in units of 0.05 (0 .. 20), and       *)
(* Pearson correlation is compared exactly, without floating point         *)
(* rounding: |r| >= t  iff  cov^2 >= t^2 * var_x * var_y.                  *)
(***************************************************************************)
EXTENDS Integers, Sequences, FiniteSets, TLC

VARIABLES
    uploaded_file,    \* st.sidebar.file_uploader value: [kind, table]
    w_base,           \* widget state of the "Select base column" selectbox (<<>>: never set)
    w_threshold,      \* widget state of the "Minimum correlation" slider
    w_plot,           \* widget state of the plot category / plot type selectboxes
    pc,               \* position of the current script run
    defined,          \* names bound / outputs produced so far in the current run
    df,               \* the DataFrame: a sequence of columns
    coerce_tried,     \* names of the columns pd.to_datetime was called on
    numeric_cols,     \* script variable numeric_cols (rebound at line 73)
    categorical_cols, \* script variable categorical_cols
    datetime_cols,    \* script variable datetime_cols
    base_options,     \* options handed to the base-column selectbox (line 65)
    corr_base_col,    \* script variable corr_base_col
    corr_threshold,   \* script variable corr_threshold
    tab_numeric,      \* numeric columns the tabs were rendered for (112, 143, 155)
    viz_num_options,  \* numeric options offered by the datavizz selectboxes
    viz_cat_options   \* categorical options offered by the datavizz selectboxes

vars == <<uploaded_file, w_base, w_threshold, w_plot, pc, defined, df, coerce_tried,
          numeric_cols, categorical_cols, datetime_cols, base_options,
          corr_base_col, corr_threshold, tab_numeric, viz_num_options,
          viz_cat_options>>

----------------------------------------------------------------------------
(* Bounds and input catalogues *)

MaxCols == 2

\* a negative entry of a numeric column stands for a missing value (NaN)
IsNA(v) == v < 0

SliderMin == 0
SliderMax == 20
SliderDefault == 6

\* slider positions the user moves to: 0.0, 0.3, 0.5, 1.0
ThresholdChoices == {SliderMin, SliderDefault, 10, SliderMax}

\* the columns uploads are built from; names are sequences of characters,
\* numeric columns carry their values, the others the kind of content they
\* hold: text, date strings, date strings with a UTC offset, booleans
Columns ==
    { [name |-> <<"q", "t", "y">>, dtype |-> "int64", vals |-> <<0, 0, 1>>, content |-> "numbers"],
      [name |-> <<"c", "o", "s", "t">>, dtype |-> "int64", vals |-> <<0, 1, 1>>, content |-> "numbers"],
      [name |-> <<"l", "o", "s", "s">>, dtype |-> "int64", vals |-> <<1, 1, 0>>, content |-> "numbers"],
      [name |-> <<"f", "l", "a", "t">>, dtype |-> "int64", vals |-> <<1, 1, 1>>, content |-> "numbers"],
      [name |-> <<"g", "a", "p">>, dtype |-> "float64", vals |-> <<0, -1, 1>>, content |-> "numbers"],
      [name |-> <<"u", "p", "T", "I", "M", "E">>, dtype |-> "int64", vals |-> <<0, 1, 1>>, content |-> "numbers"],
      [name |-> <<"D", "a", "t", "e">>, dtype |-> "object", vals |-> <<>>, content |-> "datestr"],
      [name |-> <<"d", "a", "t", "e", "d">>, dtype |-> "object", vals |-> <<>>, content |-> "text"],
      [name |-> <<"T", "i", "m", "e", "z">>, dtype |-> "object", vals |-> <<>>, content |-> "tzstr"],
      [name |-> <<"f", "l", "a", "g">>, dtype |-> "bool", vals |-> <<>>, content |-> "flags"] }

Names == { c.name : c \in Columns }

SeqsUpTo(S, n) == UNION { [1..k -> S] : k \in 1..n }

\* read_csv / read_excel give every column its own name
Tables == { t \in SeqsUpTo(Columns, MaxCols) : \A i, j \in 1..Len(t) : i # j => t[i].name # t[j].name }

NoFile == [kind |-> "none", table |-> <<>>]
Malformed == [kind |-> "bad", table |-> <<>>]
Files == { [kind |-> "ok", table |-> t] : t \in Tables } \cup {Malformed}

----------------------------------------------------------------------------
(* Sequence helpers *)

SeqToSet(s) == { s[i] : i \in 1..Len(s) }

Perms(S) == { p \in [1..Cardinality(S) -> S] : SeqToSet(p) = S }

RECURSIVE MapNames(_)
MapNames(t) == IF t = <<>> THEN <<>> ELSE <<Head(t).name>> \o MapNames(Tail(t))

ColOf(d, n) == CHOOSE c \in SeqToSet(d) : c.name = n

----------------------------------------------------------------------------
(* Lines 31-37: date/time coercion *)

UpperCase == <<"A", "B", "C", "D", "E", "F", "G", "H", "I", "J", "K", "L", "M", "N", "O", "P", "Q", "R", "S", "T", "U", "V", "W", "X", "Y", "Z">>
LowerCase == <<"a", "b", "c", "d", "e", "f", "g", "h", "i", "j", "k", "l", "m", "n", "o", "p", "q", "r", "s", "t", "u", "v", "w", "x", "y", "z">>

\* str.lower() on one character
LowerChar(ch) == IF \E k \in 1..Len(UpperCase) : UpperCase[k] = ch THEN LowerCase[CHOOSE k \in 1..Len(UpperCase) : UpperCase[k] = ch] ELSE ch

\* col.lower()
Lower(name) == [k \in 1..Len(name) |-> LowerChar(name[k])]

\* the Python operator  sub in s
Contains(sub, s) == \E k \in 0..(Len(s) - Len(sub)) : \A m \in 1..Len(sub) : s[k + m] = sub[m]

\* condition of line 33, the mutant compares without lower()
NameMatchesCaseSensitive(name) == Contains(<<"d", "a", "t", "e">>, name) \/ Contains(<<"t", "i", "m", "e">>, name)

NameMatches(name) == Contains(<<"d", "a", "t", "e">>, Lower(name)) \/ Contains(<<"t", "i", "m", "e">>, Lower(name))

\* pd.to_datetime(df[col]) raises for text that is no timestamp and for booleans
ToDatetimeRaises(c) == (c.dtype = "object" /\ c.content = "text") \/ c.dtype = "bool"

\* storage type of pd.to_datetime(df[col]) when it returns: numbers are read
\* as epoch offsets, strings carrying a UTC offset give a tz-aware column
ToDatetimeDtype(c) == IF c.dtype = "object" /\ c.content = "tzstr" THEN "datetimetz" ELSE "datetime64"

\* one iteration of the loop body, lines 33-37
CoerceCol(c) == IF NameMatches(c.name) /\ ~ToDatetimeRaises(c) THEN [c EXCEPT !.dtype = ToDatetimeDtype(c)] ELSE c

\* the loop of lines 32-37; the mutant has the try around the whole loop, so
\* the first failure ends the loop
RECURSIVE CoerceLoopAbortOnFailure(_)
CoerceLoopAbortOnFailure(d) == IF d = <<>> THEN <<>> ELSE IF NameMatches(Head(d).name) /\ ToDatetimeRaises(Head(d)) THEN d ELSE <<CoerceCol(Head(d))>> \o CoerceLoopAbortOnFailure(Tail(d))

RECURSIVE CoerceLoop(_)
CoerceLoop(d) == IF d = <<>> THEN <<>> ELSE <<CoerceCol(Head(d))>> \o CoerceLoop(Tail(d))

\* the columns line 35 is executed for
CoerceTried(d) == { d[i].name : i \in { j \in 1..Len(d) : NameMatches(d[j].name) } }

----------------------------------------------------------------------------
(* Lines 39-42: classification by storage type *)

\* dtypes selected by include=np.number
NpNumber == {"int64", "float64"}

\* dtypes selected by include='object'; the mutant selects everything that
\* is not a timestamp
NotDatetimeDtypes == {"object", "int64", "float64", "bool"}

ObjectDtypes == {"object"}

\* dtypes selected by include='datetime64' (tz-naive timestamps only)
Datetime64Dtypes == {"datetime64"}

\* dtypes selected by include=['int64', 'float64'] in datavizz
Int64Float64 == {"int64", "float64"}

IsOfDtype(c, dtypes) == c.dtype \in dtypes

\* d.select_dtypes(include=...).columns.tolist()
SelectDtypes(d, dtypes) == MapNames(SelectSeq(d, LAMBDA c : IsOfDtype(c, dtypes)))

----------------------------------------------------------------------------
(* Lines 64-73: correlation filter *)

\* rows in which both columns hold a value (DataFrame.corr is pairwise complete)
PairRows(x, y) == { i \in 1..Len(x) : ~IsNA(x[i]) /\ ~IsNA(y[i]) }

RECURSIVE SumOver(_, _, _)
SumOver(R, x, y) == IF R = {} THEN 0 ELSE LET i == CHOOSE j \in R : TRUE IN x[i] * y[i] + SumOver(R \ {i}, x, y)

Ones(x) == [i \in 1..Len(x) |-> 1]

\* n * sum(xy) - sum(x) * sum(y) over the rows R: n^2 times the covariance
CoMoment(R, x, y) == Cardinality(R) * SumOver(R, x, y) - SumOver(R, x, Ones(x)) * SumOver(R, y, Ones(y))

\* the Pearson coefficient is NaN when either column is constant on the shared rows
CorrDefined(x, y) == CoMoment(PairRows(x, y), x, x) > 0 /\ CoMoment(PairRows(x, y), y, y) > 0

\* abs(corr) >= t / 20 with a NaN comparing False; the first mutant compares
\* with > , the second lets an undefined coefficient pass
AbsCorrGT(x, y, t) == CorrDefined(x, y) /\ (SliderMax * SliderMax) * CoMoment(PairRows(x, y), x, y) * CoMoment(PairRows(x, y), x, y) > t * t * CoMoment(PairRows(x, y), x, x) * CoMoment(PairRows(x, y), y, y)

AbsCorrGENanPasses(x, y, t) == (SliderMax * SliderMax) * CoMoment(PairRows(x, y), x, y) * CoMoment(PairRows(x, y), x, y) >= t * t * CoMoment(PairRows(x, y), x, x) * CoMoment(PairRows(x, y), y, y)

AbsCorrGE(x, y, t) == CorrDefined(x, y) /\ (SliderMax * SliderMax) * CoMoment(PairRows(x, y), x, y) * CoMoment(PairRows(x, y), x, y) >= t * t * CoMoment(PairRows(x, y), x, x) * CoMoment(PairRows(x, y), y, y)

\* st.sidebar.selectbox: the widget keeps the user's choice while it is among
\* the options and falls back to the first option otherwise
SelectboxValue(w, options) == IF w \in SeqToSet(options) THEN w ELSE options[1]

\* line 70: index of corr_matrix[corr_base_col].drop(corr_base_col)
CorrSeriesIndex(ncols, base) == SelectSeq(ncols, LAMBDA n : n # base)

\* line 71
SelectedCorrCols(d, ncols, base, t) == SelectSeq(CorrSeriesIndex(ncols, base), LAMBDA n : AbsCorrGE(ColOf(d, base).vals, ColOf(d, n).vals, t))

\* line 72; the mutant forgets the base column
SelectedColumnsWithoutBase(base, selected) == selected

SelectedColumns(base, selected) == <<base>> \o selected

\* line 73 as a set; list(set(...)) leaves the order to the hash seed
FilteredSet(d, ncols, base, t) == SeqToSet(ncols) \cap SeqToSet(SelectedColumns(base, SelectedCorrCols(d, ncols, base, t)))

\* line 73 binds the result to the name numeric_cols; the mutant binds it to
\* a name of its own and leaves numeric_cols as classified
BindElsewhere(old, new) == old

BindNumericCols(old, new) == new

----------------------------------------------------------------------------
(* Lines 163-289: datavizz *)

PlotGroups == <<"basic", "trend", "advanced", "experimental">>

PlotTypes(g) == CASE g = "basic" -> <<"Histogram", "Boxplot", "Countplot", "Scatterplot", "Pairplot", "Heatmap">> [] g = "trend" -> <<"Lineplot", "Barplot">> [] g = "advanced" -> <<"Violinplot", "Swarmplot", "Stripplot", "Boxenplot">> [] g = "experimental" -> <<"Treemap", "Andrews Curves">>

\* the plot categories and plot types the user switches to
GroupChoices == {"basic", "advanced"}
TypeChoices == {"Histogram", "Countplot"}

\* plot types with a selectbox over the numeric columns
OffersNumeric(p) == p.type \notin {"Countplot", "Heatmap", "Treemap", "Andrews Curves"}

\* plot types with a selectbox over the object columns
OffersCategorical(p) == p.type \in {"Countplot", "Barplot", "Violinplot", "Swarmplot", "Stripplot", "Boxenplot", "Treemap", "Andrews Curves"}

----------------------------------------------------------------------------
(* The script as a state machine *)

\* state after the first run of the script, before any upload (lines 291-292)
Init ==
    /\ uploaded_file = NoFile
    /\ w_base = <<>>
    /\ w_threshold = SliderDefault
    /\ w_plot = [group |-> PlotGroups[1], type |-> PlotTypes(PlotGroups[1])[1]]
    /\ pc = "idle"
    /\ defined = {}
    /\ df = <<>>
    /\ coerce_tried = {}
    /\ numeric_cols = <<>>
    /\ categorical_cols = <<>>
    /\ datetime_cols = <<>>
    /\ base_options = <<>>
    /\ corr_base_col = <<>>
    /\ corr_threshold = SliderDefault
    /\ tab_numeric = <<>>
    /\ viz_num_options = <<>>
    /\ viz_cat_options = <<>>

\* an interaction that keeps the script's names and re-enters at the filter
\* instead of running the script again from the top
RerunFromFilter ==
    /\ pc' = IF "numeric_cols" \in defined THEN "filter" ELSE "load"
    /\ UNCHANGED <<defined, df, coerce_tried, numeric_cols, categorical_cols, datetime_cols, base_options, corr_base_col, corr_threshold, tab_numeric, viz_num_options, viz_cat_options>>

\* every interaction runs the script again from its first line with an
\* empty namespace and an empty page
Rerun ==
    /\ pc' = "load"
    /\ defined' = {}
    /\ df' = <<>>
    /\ coerce_tried' = {}
    /\ numeric_cols' = <<>>
    /\ categorical_cols' = <<>>
    /\ datetime_cols' = <<>>
    /\ base_options' = <<>>
    /\ corr_base_col' = <<>>
    /\ corr_threshold' = SliderDefault
    /\ tab_numeric' = <<>>
    /\ viz_num_options' = <<>>
    /\ viz_cat_options' = <<>>

\* line 21: the user uploads a file
Upload(f) ==
    /\ pc = "idle"
    /\ uploaded_file' = f
    /\ UNCHANGED <<w_base, w_threshold, w_plot>>
    /\ Rerun

\* line 21: the user removes the uploaded file
ClearUpload ==
    /\ pc = "idle"
    /\ uploaded_file # NoFile
    /\ uploaded_file' = NoFile
    /\ UNCHANGED <<w_base, w_threshold, w_plot>>
    /\ Rerun

\* line 65: the user picks another base column from the selectbox
ChangeBase(b) ==
    /\ pc = "idle"
    /\ "corr_base_col" \in defined
    /\ b \in SeqToSet(base_options)
    /\ b # corr_base_col
    /\ w_base' = b
    /\ UNCHANGED <<uploaded_file, w_threshold, w_plot>>
    /\ Rerun

\* line 66: the user moves the slider
ChangeThreshold(t) ==
    /\ pc = "idle"
    /\ "corr_threshold" \in defined
    /\ t # w_threshold
    /\ w_threshold' = t
    /\ UNCHANGED <<uploaded_file, w_base, w_plot>>
    /\ Rerun

\* line 166: the user picks another plot category; the plot type selectbox of
\* the new category starts at its first entry
ChangeGroup(g) ==
    /\ pc = "idle"
    /\ "viz" \in defined
    /\ g # w_plot.group
    /\ w_plot' = [group |-> g, type |-> PlotTypes(g)[1]]
    /\ UNCHANGED <<uploaded_file, w_base, w_threshold>>
    /\ Rerun

\* lines 174, 226, 245, 271: the user picks another plot type
ChangeType(ty) ==
    /\ pc = "idle"
    /\ "viz" \in defined
    /\ ty \in SeqToSet(PlotTypes(w_plot.group))
    /\ ty # w_plot.type
    /\ w_plot' = [w_plot EXCEPT !.type = ty]
    /\ UNCHANGED <<uploaded_file, w_base, w_threshold>>
    /\ Rerun

\* lines 24, 291-292: no file, only st.info is shown
LoadNone ==
    /\ pc = "load"
    /\ uploaded_file.kind = "none"
    /\ pc' = "idle"
    /\ UNCHANGED <<uploaded_file, w_base, w_threshold, w_plot, defined, df, coerce_tried, numeric_cols, categorical_cols, datetime_cols, base_options, corr_base_col, corr_threshold, tab_numeric, viz_num_options, viz_cat_options>>

\* lines 27-28 without the st.stop() of line 29: the script goes on with an
\* empty frame
LoadFailNoStop ==
    /\ pc = "load"
    /\ uploaded_file.kind = "bad"
    /\ defined' = {"load_error", "df"}
    /\ pc' = "coerce"
    /\ UNCHANGED <<uploaded_file, w_base, w_threshold, w_plot, df, coerce_tried, numeric_cols, categorical_cols, datetime_cols, base_options, corr_base_col, corr_threshold, tab_numeric, viz_num_options, viz_cat_options>>

\* lines 25-29: reading raises, st.error reports it and st.stop() ends the run
LoadFail ==
    /\ pc = "load"
    /\ uploaded_file.kind = "bad"
    /\ defined' = {"load_error"}
    /\ pc' = "idle"
    /\ UNCHANGED <<uploaded_file, w_base, w_threshold, w_plot, df, coerce_tried, numeric_cols, categorical_cols, datetime_cols, base_options, corr_base_col, corr_threshold, tab_numeric, viz_num_options, viz_cat_options>>

\* lines 25-26: reading succeeds
LoadOk ==
    /\ pc = "load"
    /\ uploaded_file.kind = "ok"
    /\ df' = uploaded_file.table
    /\ defined' = {"df"}
    /\ pc' = "coerce"
    /\ UNCHANGED <<uploaded_file, w_base, w_threshold, w_plot, coerce_tried, numeric_cols, categorical_cols, datetime_cols, base_options, corr_base_col, corr_threshold, tab_numeric, viz_num_options, viz_cat_options>>

\* lines 31-37
Coerce ==
    /\ pc = "coerce"
    /\ df' = CoerceLoop(df)
    /\ coerce_tried' = CoerceTried(df)
    /\ defined' = defined \cup {"coerced"}
    /\ pc' = "classify"
    /\ UNCHANGED <<uploaded_file, w_base, w_threshold, w_plot, numeric_cols, categorical_cols, datetime_cols, base_options, corr_base_col, corr_threshold, tab_numeric, viz_num_options, viz_cat_options>>

\* lines 39-42
Classify ==
    /\ pc = "classify"
    /\ numeric_cols' = SelectDtypes(df, NpNumber)
    /\ categorical_cols' = SelectDtypes(df, ObjectDtypes)
    /\ datetime_cols' = SelectDtypes(df, Datetime64Dtypes)
    /\ defined' = defined \cup {"numeric_cols", "categorical_cols", "datetime_cols"}
    /\ pc' = "filter"
    /\ UNCHANGED <<uploaded_file, w_base, w_threshold, w_plot, df, coerce_tried, base_options, corr_base_col, corr_threshold, tab_numeric, viz_num_options, viz_cat_options>>

\* lines 64-73 with a non-empty numeric_cols
FilterApply ==
    /\ pc = "filter"
    /\ numeric_cols # <<>>
    /\ base_options' = numeric_cols
    /\ corr_base_col' = SelectboxValue(w_base, numeric_cols)
    /\ w_base' = corr_base_col'
    /\ corr_threshold' = w_threshold
    /\ \E p \in Perms(FilteredSet(df, numeric_cols, corr_base_col', corr_threshold')) : numeric_cols' = BindNumericCols(numeric_cols, p)
    /\ defined' = defined \cup {"corr_base_col", "corr_threshold", "filtered"}
    /\ pc' = "tabs"
    /\ UNCHANGED <<uploaded_file, w_threshold, w_plot, df, coerce_tried, categorical_cols, datetime_cols, tab_numeric, viz_num_options, viz_cat_options>>

\* line 64 with an empty numeric_cols: the block is skipped
FilterSkip ==
    /\ pc = "filter"
    /\ numeric_cols = <<>>
    /\ pc' = "tabs"
    /\ UNCHANGED <<uploaded_file, w_base, w_threshold, w_plot, defined, df, coerce_tried, numeric_cols, categorical_cols, datetime_cols, base_options, corr_base_col, corr_threshold, tab_numeric, viz_num_options, viz_cat_options>>

\* lines 75-160: the tabs are drawn for numeric_cols as it is bound now
Tabs ==
    /\ pc = "tabs"
    /\ tab_numeric' = numeric_cols
    /\ defined' = defined \cup {"tabs"}
    /\ pc' = "viz"
    /\ UNCHANGED <<uploaded_file, w_base, w_threshold, w_plot, df, coerce_tried, numeric_cols, categorical_cols, datetime_cols, base_options, corr_base_col, corr_threshold, viz_num_options, viz_cat_options>>

\* line 289: datavizz(df) fills its selectboxes from the frame it is given
\* (a plot drawn from an empty selectbox raises and only shows a traceback)
Datavizz ==
    /\ pc = "viz"
    /\ viz_num_options' = IF OffersNumeric(w_plot) THEN SelectDtypes(df, Int64Float64) ELSE <<>>
    /\ viz_cat_options' = IF OffersCategorical(w_plot) THEN SelectDtypes(df, ObjectDtypes) ELSE <<>>
    /\ defined' = defined \cup {"viz"} \cup (IF OffersNumeric(w_plot) THEN {"viz_num"} ELSE {}) \cup (IF OffersCategorical(w_plot) THEN {"viz_cat"} ELSE {})
    /\ pc' = "idle"
    /\ UNCHANGED <<uploaded_file, w_base, w_threshold, w_plot, df, coerce_tried, numeric_cols, categorical_cols, datetime_cols, base_options, corr_base_col, corr_threshold, tab_numeric>>

Next ==
    \/ \E f \in Files : Upload(f)
    \/ ClearUpload
    \/ \E b \in Names : ChangeBase(b)
    \/ \E t \in ThresholdChoices : ChangeThreshold(t)
    \/ \E g \in GroupChoices : ChangeGroup(g)
    \/ \E ty \in TypeChoices : ChangeType(ty)
    \/ LoadNone
    \/ LoadFail
    \/ LoadOk
    \/ Coerce
    \/ Classify
    \/ FilterApply
    \/ FilterSkip
    \/ Tabs
    \/ Datavizz

Spec == Init /\ [][Next]_vars

----------------------------------------------------------------------------
(* Vocabulary of the properties, stated without the operators of the model *)

\* names of the catalogue that contain "date" or "time" in any letter case
DateTimeNamed == { <<"u", "p", "T", "I", "M", "E">>, <<"D", "a", "t", "e">>, <<"d", "a", "t", "e", "d">>, <<"T", "i", "m", "e", "z">> }

\* the Table of the current upload
Table == uploaded_file.table

NamesOf(d) == { d[i].name : i \in 1..Len(d) }

NamesOfDtype(d, dtypes) == { d[i].name : i \in { j \in 1..Len(d) : d[j].dtype \in dtypes } }

\* sum over the row pairs i < j of (x_i - x_j) * (y_i - y_j), missing rows left out
PairSum(x, y, u, v) == LET R == { i \in 1..Len(x) : x[i] >= 0 /\ y[i] >= 0 } IN LET P == { q \in R \X R : q[1] < q[2] } IN LET f[S \in SUBSET P] == IF S = {} THEN 0 ELSE LET q == CHOOSE r \in S : TRUE IN (u[q[1]] - u[q[2]]) * (v[q[1]] - v[q[2]]) + f[S \ {q}] IN f[P]

PearsonDefined(x, y) == PairSum(x, y, x, x) # 0 /\ PairSum(x, y, y, y) # 0

\* |r| >= t / 20 for the Pearson coefficient r of x and y
PearsonAtLeast(x, y, t) == PearsonDefined(x, y) /\ 400 * PairSum(x, y, x, y) * PairSum(x, y, x, y) >= t * t * PairSum(x, y, x, x) * PairSum(x, y, y, y)

ValsOf(n) == (CHOOSE c \in { df[i] : i \in 1..Len(df) } : c.name = n).vals

\* the numeric columns of the frame, whatever numeric_cols is bound to
NumericOfFrame == NamesOfDtype(df, {"int64", "float64"})

\* the run has passed the correlation filter block
PastFilter == "numeric_cols" \in defined /\ pc \in {"tabs", "viz", "idle"}

----------------------------------------------------------------------------
(* Properties *)

\* C1: once the classifier has run, the numeric, categorical and datetime
\* column sets are pairwise disjoint and their union is a subset of the
\* Table's column names, in every state reached by any sequence of uploads.
C1_ClassesDisjoint ==
    "numeric_cols" \in defined =>
        /\ SeqToSet(numeric_cols) \cap SeqToSet(categorical_cols) = {}
        /\ SeqToSet(numeric_cols) \cap SeqToSet(datetime_cols) = {}
        /\ SeqToSet(categorical_cols) \cap SeqToSet(datetime_cols) = {}
        /\ (SeqToSet(numeric_cols) \cup SeqToSet(categorical_cols) \cup SeqToSet(datetime_cols)) \subseteq NamesOf(Table)

\* a classified two-column Table with a numeric and a categorical column
C1_Witness ==
    /\ pc = "filter"
    /\ Len(numeric_cols) = 1
    /\ Len(categorical_cols) = 1

\* C2: the filter returns exactly the base column plus every other numeric
\* column whose absolute correlation with the base is >= the threshold, and
\* nothing outside the numeric set.
C2_FilterExact ==
    "filtered" \in defined =>
        /\ corr_base_col \in NumericOfFrame
        /\ SeqToSet(numeric_cols) = {corr_base_col} \cup { n \in NumericOfFrame \ {corr_base_col} : PearsonAtLeast(ValsOf(corr_base_col), ValsOf(n), corr_threshold) }
        /\ SeqToSet(numeric_cols) \subseteq NumericOfFrame

\* the other column sits exactly on the threshold: r = 0.5 at threshold 0.5
C2_Witness ==
    /\ "filtered" \in defined
    /\ corr_threshold = 10
    /\ Len(numeric_cols) = 2
    /\ \E n \in SeqToSet(numeric_cols) : n # corr_base_col /\ ~PearsonAtLeast(ValsOf(corr_base_col), ValsOf(n), 11)

\* C3: whenever the numeric set is non-empty the filtered set contains the
\* base column, for every threshold and also when the base column has zero
\* variance; with a single numeric column the result is exactly that column.
C3_BaseKept ==
    (PastFilter /\ NumericOfFrame # {}) =>
        /\ "filtered" \in defined
        /\ corr_base_col \in SeqToSet(numeric_cols)
        /\ (Cardinality(NumericOfFrame) = 1 => numeric_cols = <<corr_base_col>>)

\* the base column has zero variance, so all its correlations are undefined
C3_Witness ==
    /\ PastFilter
    /\ Cardinality(NumericOfFrame) = 2
    /\ \A n \in NumericOfFrame \ {corr_base_col} : ~PearsonDefined(ValsOf(corr_base_col), ValsOf(n))
    /\ numeric_cols = <<corr_base_col>>

\* C4: at threshold 0.0 the filtered set holds every numeric column with a
\* defined correlation against the base; a non-base column whose correlation
\* with the base is undefined is excluded from the filtered set.
C4_ZeroThreshold ==
    "filtered" \in defined =>
        /\ (corr_threshold = 0 => \A n \in NumericOfFrame : PearsonDefined(ValsOf(corr_base_col), ValsOf(n)) => n \in SeqToSet(numeric_cols))
        /\ \A n \in NumericOfFrame \ {corr_base_col} : ~PearsonDefined(ValsOf(corr_base_col), ValsOf(n)) => n \notin SeqToSet(numeric_cols)

\* threshold 0.0 and a second numeric column with an undefined correlation
C4_Witness ==
    /\ "filtered" \in defined
    /\ corr_threshold = 0
    /\ \E n \in NumericOfFrame \ {corr_base_col} : ~PearsonDefined(ValsOf(corr_base_col), ValsOf(n)) /\ n \notin SeqToSet(numeric_cols)

C6_LoadErrorHalts ==
    /\ ("load_error" \in defined => (pc = "idle" /\ defined = {"load_error"} /\ df = <<>> /\ coerce_tried = {} /\ numeric_cols = <<>> /\ categorical_cols = <<>> /\ datetime_cols = <<>> /\ base_options = <<>> /\ tab_numeric = <<>> /\ viz_num_options = <<>> /\ viz_cat_options = <<>>))
    /\ ((uploaded_file.kind = "bad" /\ pc # "load") => "load_error" \in defined)

\* a malformed upload after an upload that was classified and filtered
C6_Witness ==
    /\ "load_error" \in defined
    /\ uploaded_file.kind = "bad"
    /\ pc = "idle"
    /\ w_base # <<>>

\* C7: when a date/time-named column cannot be parsed as a timestamp the
\* failure is silently ignored: the column keeps its storage type, no error
\* is surfaced, the remaining columns are still coerced and classified, and
\* the column is classified by its original type.
C7_CoercionFailureIgnored ==
    "coerced" \in defined =>
        /\ "load_error" \notin defined
        /\ \A i \in 1..Len(Table) :
             /\ (Table[i].name \in DateTimeNamed /\ (Table[i].content = "text" \/ Table[i].dtype = "bool")) => (df[i].dtype = Table[i].dtype /\ (pc = "filter" => (df[i].dtype = "object" => df[i].name \in SeqToSet(categorical_cols))))
             /\ (Table[i].name \in DateTimeNamed /\ Table[i].content \in {"datestr", "numbers"}) => (df[i].dtype = "datetime64" /\ (pc = "filter" => df[i].name \in SeqToSet(datetime_cols)))
        /\ (pc = "idle" => {"numeric_cols", "categorical_cols", "datetime_cols", "tabs", "viz"} \subseteq defined)

\* the unparseable "dated" column comes first and "Date" after it is coerced
C7_Witness ==
    /\ pc = "filter"
    /\ Len(df) = 2
    /\ df[1].name = <<"d", "a", "t", "e", "d">> /\ df[1].dtype = "object"
    /\ df[2].name = <<"D", "a", "t", "e">> /\ df[2].dtype = "datetime64"
    /\ categorical_cols = << <<"d", "a", "t", "e", "d">> >>
    /\ datetime_cols = << <<"D", "a", "t", "e">> >>

\* C8: the numeric columns offered by the chart dispatcher datavizz are the
\* filtered numeric set, not the unfiltered numeric columns of the Table.
C8_VizOffersFiltered ==
    "viz_num" \in defined => SeqToSet(viz_num_options) = SeqToSet(numeric_cols)

\* C9: every interaction recomputes classification and filtering from the
\* current Table: the frame and the classification sets are those of the
\* currently uploaded Table and the base-column choices are its full
\* unfiltered numeric set, whatever an earlier interaction filtered.
C9_RecomputedFromScratch ==
    /\ "df" \in defined => (Len(df) = Len(Table) /\ \A i \in 1..Len(df) : df[i].name = Table[i].name /\ df[i].vals = Table[i].vals /\ df[i].content = Table[i].content)
    /\ "numeric_cols" \in defined =>
        /\ SeqToSet(categorical_cols) = NamesOfDtype(df, {"object"})
        /\ SeqToSet(datetime_cols) = NamesOfDtype(df, {"datetime64"})
        /\ (pc = "filter" => SeqToSet(numeric_cols) = NumericOfFrame)
        /\ (PastFilter /\ NumericOfFrame # {} => SeqToSet(base_options) = NumericOfFrame)
        /\ \A n \in NumericOfFrame : \E i \in 1..Len(Table) : Table[i].name = n /\ Table[i].dtype \in {"int64", "float64"} /\ n \notin DateTimeNamed

\* after a slider move the filter has narrowed numeric_cols to one column and
\* the base-column choices are still both numeric columns
C9_Witness ==
    /\ pc = "idle"
    /\ "filtered" \in defined
    /\ w_threshold = 20
    /\ Len(base_options) = 2
    /\ Len(numeric_cols) = 1

\* C10 as stated: running the filter leaves the Table, the categorical set,
\* the datetime set and the numeric set of the classifier unchanged.
C10_FilterMutatesNothing ==
    [][pc = "filter" => (df' = df /\ categorical_cols' = categorical_cols /\ datetime_cols' = datetime_cols /\ SeqToSet(numeric_cols') = SeqToSet(numeric_cols))]_vars

\* C10 as amended: running the filter leaves the Table, the categorical set
\* and the datetime set unchanged, but numeric_cols is rebound to the filtered
\* set (the base column plus the numeric columns meeting the threshold), so
\* the numeric set of the classifier is overwritten, and the tabs are drawn
\* for the overwritten value.
C10_FilterRebindsNumeric ==
    [][/\ pc = "filter" => (df' = df /\ categorical_cols' = categorical_cols /\ datetime_cols' = datetime_cols)
       /\ (pc = "filter" /\ numeric_cols # <<>>) => SeqToSet(numeric_cols') = {corr_base_col'} \cup { n \in SeqToSet(numeric_cols) \ {corr_base_col'} : PearsonAtLeast(ValsOf(corr_base_col'), ValsOf(n), corr_threshold') }
       /\ pc = "tabs" => tab_numeric' = numeric_cols]_vars

\* the tabs were drawn for fewer numeric columns than the classifier found
C10_Witness ==
    /\ pc = "viz"
    /\ "filtered" \in defined
    /\ SeqToSet(tab_numeric) # NumericOfFrame
    /\ SeqToSet(tab_numeric) \subseteq NumericOfFrame

====
